---- MODULE Spec2Model ----
(***************************************************************************)
(* Model of mcp_server.py: the sql_agent tool entry point, the in-memory   *)
(* sliding-window rate limiter, the lazily built agent singleton and the   *)
(* streamed execution mode.                                                *)
(*                                                                         *)
(* Scheduling is the asyncio event loop: one coroutine runs at a time and  *)
(* keeps the loop until it awaits something that suspends.  `running` is   *)
(* the request that holds the loop (0 when the loop is idle); every     *)
(* action is the code one request executes between two suspension points.  *)
(* Strings are sequences of characters or of fragments; request latency    *)
(* (time.perf_counter) is not modelled.                                    *)
(***************************************************************************)
EXTENDS Integers, Sequences, FiniteSets, TLC

\* ---------------------------------------------------------------- bounds
NumReqs == 3       \* sql_agent invocations in one run
MaxChunks == 2     \* chunks the agent yields in one run
MaxItems == 2      \* actions / steps the agent hands over in one run
MaxTime == 61      \* last reading of the monotonic clock

\* ------------------------------------------------------ program constants
window_sec == 60
DEFAULT_LIMIT == 10

\* Python None where a string is expected (strings are sequences)
None == <<"None">>
\* Python None where an object is expected
Null == [none |-> TRUE]

Reqs == 1..NumReqs

\* time.monotonic() never goes back: a reading is the previous reading plus
\* the time elapsed since, one of these amounts
Elapsed == {0, 30, 31, 60, 61}

\* ctx argument of sql_agent: no Context, or a Context with its client_id
ClientIds == {None, <<"c1">>, <<"global">>}
Contexts == {Null} \cup [client_id : ClientIds]

\* SqlAgentArgs: question, stream, rate_limit (ge=1; 0 stands for None)
RateLimits == {0, 1, 2}
Questions == {<<"q">>}
SqlAgentArgs == [question : Questions, stream : BOOLEAN, rate_limit : RateLimits]

\* os.environ: OPENAI_API_KEY is absent (None) or set
ApiKeys == {None, <<"sk-1">>}

ToolName == <<"sql_db_query">>
\* an agent action as the stream hands it over: an object with a .tool
\* attribute or a dict with a "tool" key; the tool name may be missing
AgentActions == {[shape |-> "obj", tool |-> ToolName],
                 [shape |-> "dict", tool |-> ToolName],
                 [shape |-> "obj", tool |-> None]}
\* a completed step: an AgentStep whose .action is one of the above
AgentSteps == [action : AgentActions]

\* text the agent may give as "output": None, or padded text
Outputs == {None, <<" ", "a", " ">>}

\* exceptions raised by the agent (invoke or astream)
AgentErrors == {[kind |-> <<"OperationalError">>, msg |-> <<"db unavailable">>]}
NoError == [kind |-> None, msg |-> None]

\* counters of the get_openai_callback context
Callbacks == {[prompt_tokens |-> 100, completion_tokens |-> 50,
               total_tokens |-> 150, total_cost |-> 1]}

RECURSIVE SeqsUpTo(_, _)
SeqsUpTo(S, n) ==
    IF n = 0 THEN {<<>>}
    ELSE LET shorter == SeqsUpTo(S, n - 1)
         IN shorter \cup {Append(s, x) : s \in shorter, x \in S}

\* chunks of agent.astream: a dict whose one recognised key is "actions",
\* "steps" or "output", or that has none of them ("messages" only)
ChunksWith(n) ==
    {[key |-> "actions", items |-> l, output |-> None] : l \in SeqsUpTo(AgentActions, n)}
    \cup {[key |-> "steps", items |-> l, output |-> None] : l \in SeqsUpTo(AgentSteps, n)}
    \cup {[key |-> "output", items |-> <<>>, output |-> o] : o \in Outputs}
    \cup {[key |-> "messages", items |-> <<>>, output |-> None]}

VARIABLES
    clock,              \* the latest reading of time.monotonic()
    _RATE_LIMIT_STORE,  \* key -> deque of admission timestamps
    _AGENT,             \* the agent singleton, Null until built
    built,              \* agents constructed so far
    attempts,           \* constructions attempted so far (get_agent found no instance)
    running,            \* request holding the event loop, 0 when it is idle
    pc,                 \* per request: position in sql_agent
    args,               \* per request: SqlAgentArgs
    ctx,                \* per request: the Context argument
    loc,                \* per request: locals of sql_agent / _run_sql_agent_stream
    resp,               \* per request: the envelope built, Null before
    chunks,             \* per request: chunks received from agent.astream
    budget,             \* inputs the environment may still give
    admitLog,           \* key -> time of every admission so far, in call order
    lastCheck,          \* the latest _check_rate_limit call and its result
    agentCalls,         \* per request: calls of get_agent
    invokes,            \* per request: calls of agent.invoke / agent.astream
    reports,            \* per request: progress given to each report_progress call
    failures            \* per request: report_progress calls that failed

vars == <<clock, _RATE_LIMIT_STORE, _AGENT, built, attempts, running, pc, args, ctx, loc,
          resp, chunks, budget, admitLog, lastCheck, agentCalls, invokes, reports,
          failures>>

\* ---------------------------------------------------------------- helpers
RECURSIVE lstrip(_)
lstrip(s) == IF s # <<>> /\ Head(s) = " " THEN lstrip(Tail(s)) ELSE s

RECURSIVE rstrip(_)
rstrip(s) == IF s # <<>> /\ s[Len(s)] = " " THEN rstrip(SubSeq(s, 1, Len(s) - 1)) ELSE s

\* str.strip()
strip(s) == rstrip(lstrip(s))

\* truthiness of an optional string
Truthy(x) == x # None /\ x # <<>>

\* (x or "")
OrEmpty(x) == IF Truthy(x) THEN x ELSE <<>>

\* ------------------------------------------------- sliding-window limiter
\* faulty variant: `if` for `while`, at most one expired entry is dropped
PurgeOnce(q, now) ==
    IF q # <<>> /\ now - Head(q) > window_sec THEN Tail(q) ELSE q

\* while q and now - q[0] > window_sec: q.popleft()
RECURSIVE Purge(_, _)
Purge(q, now) ==
    IF q # <<>> /\ now - Head(q) > window_sec THEN Purge(Tail(q), now) ELSE q

\* faulty variant: the comparison is strict, one call too many gets in
OverLimitStrict(q, limit) == Len(q) > limit

\* if len(q) >= limit: return False
OverLimit(q, limit) == Len(q) >= limit

\* faulty variant: an admission is granted but its timestamp is not stored
CheckRateLimitLostRecord(store, key, limit, now) ==
    LET s1 == IF key \in DOMAIN store THEN store ELSE store @@ (key :> <<>>)
        q == Purge(s1[key], now)
    IN [ok |-> ~OverLimit(q, limit), store |-> [s1 EXCEPT ![key] = q]]

\* faulty variant: appendleft for append
CheckRateLimitAppendLeft(store, key, limit, now) ==
    LET s1 == IF key \in DOMAIN store THEN store ELSE store @@ (key :> <<>>)
        q == Purge(s1[key], now)
    IN IF OverLimit(q, limit)
       THEN [ok |-> FALSE, store |-> [s1 EXCEPT ![key] = q]]
       ELSE [ok |-> TRUE, store |-> [s1 EXCEPT ![key] = <<now>> \o q]]

\* faulty variant: a rejected attempt is recorded as well
CheckRateLimitRecordsAll(store, key, limit, now) ==
    LET s1 == IF key \in DOMAIN store THEN store ELSE store @@ (key :> <<>>)
        q == Purge(s1[key], now)
    IN [ok |-> ~OverLimit(q, limit), store |-> [s1 EXCEPT ![key] = Append(q, now)]]

\* _check_rate_limit(key, limit) at time now on store: the value returned and
\* the store left behind.  Nothing in it suspends (the lock is free whenever
\* a coroutine reaches it), so it runs as one step.
CheckRateLimit(store, key, limit, now) ==
    LET s1 == IF key \in DOMAIN store THEN store ELSE store @@ (key :> <<>>)
        q == Purge(s1[key], now)
    IN IF OverLimit(q, limit)
       THEN [ok |-> FALSE, store |-> [s1 EXCEPT ![key] = q]]
       ELSE [ok |-> TRUE, store |-> [s1 EXCEPT ![key] = Append(q, now)]]

\* key = getattr(ctx, "client_id", None) if ctx else None
\* key = str(key) if key else "global"
RateKey(c) ==
    LET k == IF c # Null THEN c.client_id ELSE None
    IN IF Truthy(k) THEN k ELSE <<"global">>

\* ------------------------------------------------------------- envelopes
TokenUsage(cb) ==
    [prompt_tokens |-> cb.prompt_tokens, completion_tokens |-> cb.completion_tokens,
     total_tokens |-> cb.total_tokens, total_cost_usd |-> cb.total_cost]

\* StreamEvent(type, tool, message)
StreamEvent(type, tool, message) == [type |-> type, tool |-> tool, message |-> message]

\* SqlAgentResponse; streamed_events is Null or [items |-> the list]
SqlAgentResponse(ok, r, a, answer, usage, error, events) ==
    [ok |-> ok, request_id |-> r, model |-> <<"gpt-4o-mini">>, version |-> <<"v:1.0">>,
     question |-> a.question, answer |-> answer, token_usage |-> usage,
     error |-> error, streamed_events |-> events]

\* the envelope of the rate-limit branch
RejectedResponse(r, a) ==
    SqlAgentResponse(FALSE, r, a, <<>>, Null, <<"Rate limit exceeded">>, Null)

\* faulty variant: str(e) alone, without the exception's kind
ErrorTextMessageOnly(e) == e.msg

\* f"{type(e).__name__}: {e}"
ErrorText(e) == e.kind \o <<": ">> \o e.msg

\* faulty variant: ok is left at its default, True
FailureResponseDefaultOk(r, a, e) ==
    SqlAgentResponse(TRUE, r, a, <<>>, Null, e.kind \o <<": ">> \o e.msg, Null)

\* the envelope of the except branch
FailureResponse(r, a, e) ==
    SqlAgentResponse(FALSE, r, a, <<>>, Null, ErrorText(e), Null)

\* faulty variant: a stream that gave no answer is reported as an error
StreamSuccessNeedsAnswer(r, a, answer, events, cb) ==
    IF answer = <<>>
    THEN SqlAgentResponse(FALSE, r, a, <<>>, Null, <<"No answer">>, [items |-> events])
    ELSE SqlAgentResponse(TRUE, r, a, answer, TokenUsage(cb), None, [items |-> events])

\* faulty variant: an empty event list is dropped from the envelope
StreamSuccessEmptyIsNull(r, a, answer, events, cb) ==
    SqlAgentResponse(TRUE, r, a, answer, TokenUsage(cb), None,
                     IF events = <<>> THEN Null ELSE [items |-> events])

\* the envelope of the streamed branch
StreamSuccessResponse(r, a, answer, events, cb) ==
    SqlAgentResponse(TRUE, r, a, answer, TokenUsage(cb), None, [items |-> events])

\* the envelope of the direct branch
DirectSuccessResponse(r, a, answer, cb) ==
    SqlAgentResponse(TRUE, r, a, answer, TokenUsage(cb), None, Null)

\* ---------------------------------------------------------- agent factory
\* faulty variant: the cached instance is never used
CachedNever(agent) == FALSE

\* if _AGENT is not None: return _AGENT
Cached(agent) == agent # Null

\* get_llm(): raises when OPENAI_API_KEY is missing
GetLlm(env) ==
    IF ~Truthy(env.OPENAI_API_KEY)
    THEN [raised |-> [kind |-> <<"ValueError">>, msg |-> <<"OPENAI_API_KEY is required">>]]
    ELSE [raised |-> NoError]

\* faulty variant: a construction that fails leaves a broken instance behind
GetAgentPoisoned(agent, n, env) ==
    IF Cached(agent)
    THEN [raised |-> NoError, agent |-> agent, singleton |-> agent, built |-> n]
    ELSE LET llm == GetLlm(env)
             new == [id |-> n + 1, api_key |-> env.OPENAI_API_KEY]
         IN IF llm.raised # NoError
            THEN [raised |-> llm.raised, agent |-> Null, singleton |-> new, built |-> n + 1]
            ELSE [raised |-> NoError, agent |-> new, singleton |-> new, built |-> n + 1]

\* get_agent() with the singleton `agent`, n agents built so far and the
\* environment env: what it raises, what it returns, the singleton and the
\* count afterwards.  An agent is known by its construction number and the
\* credential it was built with.
GetAgent(agent, n, env) ==
    IF Cached(agent)
    THEN [raised |-> NoError, agent |-> agent, singleton |-> agent, built |-> n]
    ELSE LET llm == GetLlm(env)
             new == [id |-> n + 1, api_key |-> env.OPENAI_API_KEY]
         IN IF llm.raised # NoError
            THEN [raised |-> llm.raised, agent |-> Null, singleton |-> agent, built |-> n]
            ELSE [raised |-> NoError, agent |-> new, singleton |-> new, built |-> n + 1]

\* ------------------------------------------------------- streamed mode
\* tool = getattr(action, "tool", None)
\*        or (action.get("tool") if isinstance(action, dict) else None)
ActionTool(action) ==
    LET attr == IF action.shape = "obj" THEN action.tool ELSE None
    IN IF Truthy(attr) THEN attr
       ELSE IF action.shape = "dict" THEN action.tool ELSE None

\* action = getattr(step, "action", step) if hasattr(step, "action") else step
\* tool = getattr(action, "tool", None) if hasattr(action, "tool") else None
StepTool(step) ==
    LET action == step.action
    IN IF action.shape = "obj" THEN action.tool ELSE None

\* the event appended for one action of an "actions" chunk
ActionEvent(action) ==
    LET tool == ActionTool(action)
    IN IF Truthy(tool)
       THEN StreamEvent("action", tool, <<"Calling tool: ">> \o tool)
       ELSE StreamEvent("action", None, <<"Planning...">>)

\* the event appended for one step of a "steps" chunk
StepEvent(step) ==
    LET tool == StepTool(step)
    IN IF Truthy(tool)
       THEN StreamEvent("step", tool, <<"Completed: ">> \o tool)
       ELSE StreamEvent("step", None, <<"Step completed">>)

\* the event appended for an "output" chunk
FinishEvent == StreamEvent("finish", None, <<"Done">>)

\* locals of a request before it runs
InitLocals ==
    [agent |-> Null, step_num |-> 0, events |-> <<>>, answer |-> <<>>,
     kind |-> "none", pending |-> <<>>, at |-> "none", progress |-> <<>>,
     exc |-> NoError]

\* One pass of a for loop body: step_num += 1, events.append(...)
ProcessItem(l) ==
    LET it == Head(l.pending)
        ev == IF l.kind = "actions" THEN ActionEvent(it) ELSE StepEvent(it)
    IN [l EXCEPT !.pending = Tail(l.pending),
                 !.step_num = l.step_num + 1,
                 !.events = Append(l.events, ev)]

\* The for loop over the rest of a chunk's list, up to the next suspension:
\* with a Context each item ends in `await ctx.report_progress(step_num, ..)`;
\* without one _report returns at once and the loop goes on to the end of
\* the list, where `async for` awaits the next chunk.
RECURSIVE RunLoop(_, _)
RunLoop(l, c) ==
    IF l.pending = <<>>
    THEN [l EXCEPT !.at = "chunk", !.kind = "none", !.progress = <<>>]
    ELSE LET l1 == ProcessItem(l)
         IN IF c # Null
            THEN [l1 EXCEPT !.at = "report", !.progress = <<l1.step_num>>]
            ELSE RunLoop(l1, c)

\* answer = (chunk.get("output") or "").strip(); events.append(finish);
\* await _report(step_num + 1, "Done")
OnOutput(l, chunk, c) ==
    LET l1 == [l EXCEPT !.answer = strip(OrEmpty(chunk.output)),
                        !.events = Append(l.events, FinishEvent)]
    IN IF c # Null
       THEN [l1 EXCEPT !.at = "report", !.progress = <<l1.step_num + 1>>]
       ELSE [l1 EXCEPT !.at = "chunk"]

\* faulty variant: the "steps" branch is missing
OnChunkNoSteps(l, chunk, c) ==
    IF chunk.key = "actions"
    THEN RunLoop([l EXCEPT !.kind = "actions", !.pending = chunk.items], c)
    ELSE IF chunk.key = "output"
    THEN OnOutput(l, chunk, c)
    ELSE [l EXCEPT !.at = "chunk"]

\* the body of `async for chunk in agent.astream(..)` for one chunk
OnChunk(l, chunk, c) ==
    IF chunk.key = "actions"
    THEN RunLoop([l EXCEPT !.kind = "actions", !.pending = chunk.items], c)
    ELSE IF chunk.key = "steps"
    THEN RunLoop([l EXCEPT !.kind = "steps", !.pending = chunk.items], c)
    ELSE IF chunk.key = "output"
    THEN OnOutput(l, chunk, c)
    ELSE [l EXCEPT !.at = "chunk"]

\* failures of ctx.report_progress
ReportErrors == {[kind |-> <<"ClosedResourceError">>, msg |-> <<>>]}

\* faulty variant: no try/except around ctx.report_progress
ReportUnguarded(outcome) == outcome

\* _report: try: await ctx.report_progress(..) except Exception: pass
\* what the caller sees of the call's outcome
Report(outcome) == NoError

\* ------------------------------------------------------------ the state
NoArgs == [question |-> <<>>, stream |-> FALSE, rate_limit |-> 0]
NoCheck == [req |-> 0, key |-> None, limit |-> 0, now |-> 0, ok |-> FALSE]

\* the admission log with one more admission of key at time now
Logged(log, key, now) ==
    IF key \in DOMAIN log THEN [log EXCEPT ![key] = Append(@, now)]
    ELSE log @@ (key :> <<now>>)
Terminal == {"Rejected", "Success", "Failure"}

\* What the environment may still do in a run: tool invocations, of which
\* streamed ones, whether invocations may carry a rate limit, chunks and
\* actions/steps yielded by the agent.  A run has either many invocations,
\* one of them streamed with an empty stream, or one invocation without a
\* rate limit and a long stream.
Budgets ==
    {[calls |-> NumReqs, streams |-> 1, limits |-> TRUE, chunks |-> 0, items |-> 0],
     [calls |-> 1, streams |-> 1, limits |-> FALSE, chunks |-> MaxChunks,
      items |-> MaxItems]}

Init ==
    /\ clock = 0
    /\ _RATE_LIMIT_STORE = <<>>
    /\ _AGENT = Null
    /\ built = 0
    /\ attempts = 0
    /\ running = 0
    /\ pc = [r \in Reqs |-> "Idle"]
    /\ args = [r \in Reqs |-> NoArgs]
    /\ ctx = [r \in Reqs |-> Null]
    /\ loc = [r \in Reqs |-> InitLocals]
    /\ resp = [r \in Reqs |-> Null]
    /\ chunks = [r \in Reqs |-> <<>>]
    /\ budget \in Budgets
    /\ admitLog = <<>>
    /\ lastCheck = NoCheck
    /\ agentCalls = [r \in Reqs |-> 0]
    /\ invokes = [r \in Reqs |-> 0]
    /\ reports = [r \in Reqs |-> <<>>]
    /\ failures = [r \in Reqs |-> 0]

\* ------------------------------------------------------------- sql_agent
\* faulty variant: the limiter is consulted whether or not a limit was given
AfterStartAlwaysCheck(a) == "RateCheck"

\* if args.rate_limit is not None: the state after Start
AfterStart(a) == IF a.rate_limit # 0 THEN "RateCheck" ELSE "Dispatch"

\* faulty variant: the rejection does not return, the request goes on
AfterRateCheckFallThrough(ok) == "Dispatch"

\* if not await _check_rate_limit(..): build the envelope and return
AfterRateCheck(ok) == IF ok THEN "Dispatch" ELSE "Rejected"

\* The tool is invoked: the event loop starts the coroutine (Start).
\* Requests are numbered in the order they arrive.
Call(r) ==
    /\ running = 0
    /\ pc[r] = "Idle"
    /\ \A q \in Reqs : q < r => pc[q] # "Idle"
    /\ budget.calls > 0
    /\ \E a \in SqlAgentArgs, c \in Contexts :
          /\ a.stream => budget.streams > 0
          /\ a.rate_limit # 0 => budget.limits
          /\ args' = [args EXCEPT ![r] = a]
          /\ ctx' = [ctx EXCEPT ![r] = c]
          /\ budget' = [budget EXCEPT !.calls = @ - 1,
                                      !.streams = IF a.stream THEN @ - 1 ELSE @]
    /\ pc' = [pc EXCEPT ![r] = "Start"]
    /\ running' = r
    /\ UNCHANGED <<clock, _RATE_LIMIT_STORE, _AGENT, built, attempts, loc, resp, chunks,
                   admitLog, lastCheck, agentCalls, invokes, reports, failures>>

\* request_id, model_name, version, start; if args.rate_limit is not None
Begin(r) ==
    /\ running = r
    /\ pc[r] = "Start"
    /\ pc' = [pc EXCEPT ![r] = AfterStart(args[r])]
    /\ UNCHANGED <<clock, _RATE_LIMIT_STORE, _AGENT, built, attempts, running, args, ctx, loc,
                   resp, chunks, budget, admitLog, lastCheck, agentCalls, invokes,
                   reports, failures>>

\* the rate-limit branch: resolve the key, call the limiter (which reads the
\* clock), reject or go on
RateCheck(r) ==
    /\ running = r
    /\ pc[r] = "RateCheck"
    /\ \E d \in Elapsed :
          LET now == clock + d
              key == RateKey(ctx[r])
              res == CheckRateLimit(_RATE_LIMIT_STORE, key, args[r].rate_limit, now)
          IN /\ now <= MaxTime
             /\ clock' = now
             /\ _RATE_LIMIT_STORE' = res.store
             /\ lastCheck' = [req |-> r, key |-> key, limit |-> args[r].rate_limit,
                               now |-> now, ok |-> res.ok]
             /\ admitLog' = IF res.ok THEN Logged(admitLog, key, now) ELSE admitLog
             /\ pc' = [pc EXCEPT ![r] = AfterRateCheck(res.ok)]
             /\ resp' = IF AfterRateCheck(res.ok) = "Rejected"
                        THEN [resp EXCEPT ![r] = RejectedResponse(r, args[r])]
                        ELSE resp
    /\ UNCHANGED <<_AGENT, built, attempts, running, args, ctx, loc, chunks, budget, agentCalls,
                   invokes, reports, failures>>

\* agent = get_agent(), inside the try; the factory reads the environment
\* as it is at that moment
Dispatch(r) ==
    /\ running = r
    /\ pc[r] = "Dispatch"
    /\ \E k \in ApiKeys :
          LET got == GetAgent(_AGENT, built, [OPENAI_API_KEY |-> k])
          IN /\ _AGENT' = got.singleton
             /\ built' = got.built
             /\ attempts' = IF Cached(_AGENT) THEN attempts ELSE attempts + 1
             /\ IF got.raised = NoError
                THEN /\ pc' = [pc EXCEPT ![r] = "Execute"]
                     /\ loc' = [loc EXCEPT ![r].agent = got.agent]
                     /\ resp' = resp
                ELSE /\ pc' = [pc EXCEPT ![r] = "Failure"]
                     /\ loc' = [loc EXCEPT ![r].exc = got.raised]
                     /\ resp' = [resp EXCEPT ![r] = FailureResponse(r, args[r], got.raised)]
    /\ agentCalls' = [agentCalls EXCEPT ![r] = @ + 1]
    /\ UNCHANGED <<clock, _RATE_LIMIT_STORE, running, args, ctx, chunks, budget,
                   admitLog, lastCheck, invokes, reports, failures>>

\* direct mode: agent.invoke(..) is a plain call, the loop is not released;
\* it returns a result or raises
Invoke(r) ==
    /\ running = r
    /\ pc[r] = "Execute"
    /\ ~args[r].stream
    /\ invokes' = [invokes EXCEPT ![r] = @ + 1]
    /\ \/ \E o \in Outputs, cb \in Callbacks :
             /\ pc' = [pc EXCEPT ![r] = "Success"]
             /\ loc' = [loc EXCEPT ![r].answer = strip(OrEmpty(o))]
             /\ resp' = [resp EXCEPT ![r] =
                           DirectSuccessResponse(r, args[r], strip(OrEmpty(o)), cb)]
       \/ \E e \in AgentErrors :
             /\ pc' = [pc EXCEPT ![r] = "Failure"]
             /\ loc' = [loc EXCEPT ![r].exc = e]
             /\ resp' = [resp EXCEPT ![r] = FailureResponse(r, args[r], e)]
    /\ UNCHANGED <<clock, _RATE_LIMIT_STORE, _AGENT, built, attempts, running, args, ctx, chunks,
                   budget, admitLog, lastCheck, agentCalls, reports, failures>>

\* streamed mode: agent.astream(..) is called and `async for` awaits the
\* first chunk, which releases the loop
OpenStream(r) ==
    /\ running = r
    /\ pc[r] = "Execute"
    /\ args[r].stream
    /\ loc[r].at = "none"
    /\ invokes' = [invokes EXCEPT ![r] = @ + 1]
    /\ loc' = [loc EXCEPT ![r].at = "chunk"]
    /\ running' = 0
    /\ UNCHANGED <<clock, _RATE_LIMIT_STORE, _AGENT, built, attempts, pc, args, ctx, resp, chunks,
                   budget, admitLog, lastCheck, agentCalls, reports, failures>>

\* the agent yields a chunk: the loop body runs up to the next suspension
StreamChunk(r) ==
    /\ running = 0
    /\ pc[r] = "Execute"
    /\ loc[r].at = "chunk"
    /\ budget.chunks > 0
    /\ \E c \in ChunksWith(budget.items) :
          /\ chunks' = [chunks EXCEPT ![r] = Append(chunks[r], c)]
          /\ budget' = [budget EXCEPT !.chunks = @ - 1, !.items = @ - Len(c.items)]
          /\ loc' = [loc EXCEPT ![r] = OnChunk(loc[r], c, ctx[r])]
    /\ UNCHANGED <<clock, _RATE_LIMIT_STORE, _AGENT, built, attempts, running, pc, args, ctx,
                   resp, admitLog, lastCheck, agentCalls, invokes, reports, failures>>

\* ctx.report_progress(..) completes or fails and _report returns: the loop
\* body goes on up to the next suspension
ReportDone(r) ==
    /\ running = 0
    /\ pc[r] = "Execute"
    /\ loc[r].at = "report"
    /\ reports' = [reports EXCEPT ![r] = Append(@, Head(loc[r].progress))]
    /\ \E o \in {NoError} \cup ReportErrors :
          /\ failures' = [failures EXCEPT ![r] = IF o # NoError THEN @ + 1 ELSE @]
          /\ IF Report(o) = NoError
             THEN /\ loc' = [loc EXCEPT ![r] = RunLoop(loc[r], ctx[r])]
                  /\ UNCHANGED <<pc, resp, running>>
             ELSE /\ pc' = [pc EXCEPT ![r] = "Failure"]
                  /\ resp' = [resp EXCEPT ![r] = FailureResponse(r, args[r], Report(o))]
                  /\ running' = r
                  /\ loc' = [loc EXCEPT ![r].exc = Report(o)]
    /\ UNCHANGED <<clock, _RATE_LIMIT_STORE, _AGENT, built, attempts, args, ctx, chunks, budget,
                   admitLog, lastCheck, agentCalls, invokes>>

\* the agent's stream ends: token usage is read and the envelope built
StreamEnd(r) ==
    /\ running = 0
    /\ pc[r] = "Execute"
    /\ loc[r].at = "chunk"
    /\ \E cb \in Callbacks :
          resp' = [resp EXCEPT ![r] = StreamSuccessResponse(r, args[r], loc[r].answer,
                                                             loc[r].events, cb)]
    /\ pc' = [pc EXCEPT ![r] = "Success"]
    /\ running' = r
    /\ UNCHANGED <<clock, _RATE_LIMIT_STORE, _AGENT, built, attempts, args, ctx, loc, chunks,
                   budget, admitLog, lastCheck, agentCalls, invokes, reports, failures>>

\* the agent's stream raises: the except branch builds the envelope
StreamRaise(r) ==
    /\ running = 0
    /\ pc[r] = "Execute"
    /\ loc[r].at = "chunk"
    /\ \E e \in AgentErrors :
          /\ resp' = [resp EXCEPT ![r] = FailureResponse(r, args[r], e)]
          /\ loc' = [loc EXCEPT ![r].exc = e]
    /\ pc' = [pc EXCEPT ![r] = "Failure"]
    /\ running' = r
    /\ UNCHANGED <<clock, _RATE_LIMIT_STORE, _AGENT, built, attempts, args, ctx, chunks,
                   budget, admitLog, lastCheck, agentCalls, invokes, reports, failures>>

\* return _dump_model(resp): the coroutine ends and its frame is gone
Return(r) ==
    /\ running = r
    /\ pc[r] \in Terminal
    /\ pc' = [pc EXCEPT ![r] = "Returned"]
    /\ running' = 0
    /\ args' = [args EXCEPT ![r] = NoArgs]
    /\ ctx' = [ctx EXCEPT ![r] = Null]
    /\ loc' = [loc EXCEPT ![r] = InitLocals]
    /\ resp' = [resp EXCEPT ![r] = Null]
    /\ chunks' = [chunks EXCEPT ![r] = <<>>]
    /\ reports' = [reports EXCEPT ![r] = <<>>]
    /\ failures' = [failures EXCEPT ![r] = 0]
    /\ agentCalls' = [agentCalls EXCEPT ![r] = 0]
    /\ invokes' = [invokes EXCEPT ![r] = 0]
    /\ UNCHANGED <<clock, _RATE_LIMIT_STORE, _AGENT, built, attempts, budget, admitLog, lastCheck>>

Next ==
    \/ \E r \in Reqs : Call(r)
    \/ \E r \in Reqs : Begin(r)
    \/ \E r \in Reqs : RateCheck(r)
    \/ \E r \in Reqs : Dispatch(r)
    \/ \E r \in Reqs : Invoke(r)
    \/ \E r \in Reqs : OpenStream(r)
    \/ \E r \in Reqs : StreamChunk(r)
    \/ \E r \in Reqs : ReportDone(r)
    \/ \E r \in Reqs : StreamEnd(r)
    \/ \E r \in Reqs : StreamRaise(r)
    \/ \E r \in Reqs : Return(r)

Spec == Init /\ [][Next]_vars

\* ================================================================ claims
\* admissions of `key` logged before the latest check
PriorAdmissions ==
    LET log == IF lastCheck.key \in DOMAIN admitLog THEN admitLog[lastCheck.key] ELSE <<>>
    IN IF lastCheck.ok THEN SubSeq(log, 1, Len(log) - 1) ELSE log

\* how many of them lie in the 60 seconds up to the latest check
PriorInWindow ==
    Cardinality({i \in 1..Len(PriorAdmissions) :
                    lastCheck.now - PriorAdmissions[i] <= window_sec})

\* C1: a call of _check_rate_limit(key, N) is admitted exactly when fewer
\* than N earlier admissions for that key lie within the 60 seconds before
\* it: the first N calls of a window get in, every further call of that
\* window is rejected, and a call made more than 60 seconds after the
\* admission that filled the window gets in again.
C1_SlidingWindow ==
    lastCheck.req # 0 => (lastCheck.ok <=> PriorInWindow < lastCheck.limit)

\* C1 witness: with N = 1, a call is admitted although the key has an earlier
\* admission, because that admission is more than 60 seconds old.
C1_Witness ==
    /\ lastCheck.req # 0
    /\ lastCheck.ok
    /\ lastCheck.limit = 1
    /\ Len(PriorAdmissions) = 1
    /\ lastCheck.now - PriorAdmissions[1] > window_sec

\* C2: every envelope has ok = false exactly when error is set and ok = true
\* exactly when error is None, and every terminal state has an envelope.
C2_OkIffNoError ==
    \A r \in Reqs :
        /\ pc[r] \in Terminal => resp[r] # Null
        /\ resp[r] # Null =>
              /\ (resp[r].ok = FALSE) <=> (resp[r].error # None)
              /\ (resp[r].ok = TRUE) <=> (resp[r].error = None)

\* C2 witness: a streamed, rate-limited request that ended in Failure.
C2_Witness ==
    \E r \in Reqs :
        /\ pc[r] = "Failure"
        /\ args[r].stream
        /\ args[r].rate_limit # 0
        /\ resp[r].ok = FALSE
        /\ resp[r].error # None

\* C3: a request the limiter rejects ends at Rejected without get_agent or
\* the agent being called, with ok = false, error "Rate limit exceeded", an
\* empty answer and no token usage; and with rate_limit = 1 a call that
\* follows an admission for the same key within the window is rejected.
C3_RejectedBeforeDispatch ==
    /\ \A r \in Reqs :
          pc[r] = "Rejected" =>
             /\ lastCheck.req = r /\ ~lastCheck.ok
             /\ agentCalls[r] = 0
             /\ invokes[r] = 0
             /\ loc[r].agent = Null
             /\ resp[r].ok = FALSE
             /\ resp[r].error = <<"Rate limit exceeded">>
             /\ resp[r].answer = <<>>
             /\ resp[r].token_usage = Null
    /\ (lastCheck.req # 0 /\ ~lastCheck.ok) =>
          /\ pc[lastCheck.req] \in {"Rejected", "Returned"}
          /\ agentCalls[lastCheck.req] = 0
    /\ (lastCheck.req # 0 /\ lastCheck.limit = 1 /\ PriorInWindow >= 1) => ~lastCheck.ok

\* C3 witness: rate_limit = 1, the key was admitted just before (no time has
\* passed), and this request stands at Rejected.
C3_Witness ==
    \E r \in Reqs :
        /\ pc[r] = "Rejected"
        /\ lastCheck.req = r
        /\ lastCheck.limit = 1
        /\ Len(PriorAdmissions) = 1
        /\ PriorAdmissions[1] = lastCheck.now

\* C4: an exception raised by get_agent, agent.invoke or the agent's stream
\* is caught: the request stands at Failure with ok = false, an empty
\* answer, no token usage, no streamed events, and error
\* "<exception kind>: <message>"; nothing collected before the exception
\* is in the envelope.
C4_FailureEnvelope ==
    \A r \in Reqs :
        /\ loc[r].exc # NoError => pc[r] = "Failure"
        /\ pc[r] = "Failure" =>
              /\ loc[r].exc # NoError
              /\ resp[r].ok = FALSE
              /\ resp[r].answer = <<>>
              /\ resp[r].token_usage = Null
              /\ resp[r].streamed_events = Null
              /\ resp[r].error = loc[r].exc.kind \o <<": ">> \o loc[r].exc.msg

\* C4 witness: the stream raised after an answer and events had been collected.
C4_Witness ==
    \E r \in Reqs :
        /\ pc[r] = "Failure"
        /\ loc[r].answer # <<>>
        /\ Len(loc[r].events) >= 2
        /\ loc[r].exc \in AgentErrors

EnvelopeFields ==
    {"ok", "request_id", "model", "version", "question", "answer", "token_usage",
     "error", "streamed_events"}

\* the moves a request may make
C5_Step ==
    \A r \in Reqs :
        pc'[r] # pc[r] =>
           \/ pc[r] = "Idle" /\ pc'[r] = "Start"
           \/ pc[r] = "Start" /\ args[r].rate_limit # 0 /\ pc'[r] = "RateCheck"
           \/ pc[r] = "Start" /\ args[r].rate_limit = 0 /\ pc'[r] = "Dispatch"
           \/ pc[r] = "RateCheck" /\ pc'[r] \in {"Dispatch", "Rejected"}
           \/ pc[r] = "Dispatch" /\ pc'[r] \in {"Execute", "Failure"}
           \/ pc[r] = "Execute" /\ pc'[r] \in {"Success", "Failure"}
           \/ pc[r] \in Terminal /\ pc'[r] = "Returned"

C5_State ==
    \A r \in Reqs :
        /\ pc[r] = "RateCheck" => args[r].rate_limit # 0
        /\ agentCalls[r] <= 1
        /\ invokes[r] <= 1
        /\ pc[r] \in Terminal <=> resp[r] # Null
        /\ resp[r] # Null => DOMAIN resp[r] = EnvelopeFields

\* C5: a request only moves forward, Start, RateCheck (exactly when a rate
\* limit is set), Dispatch, Execute, and ends in one of Rejected, Success,
\* Failure, from which it only returns; it calls get_agent and the agent at
\* most once each, and has an envelope, always with the same fields, exactly
\* in its terminal state.
C5_LinearLifecycle == [](C5_State) /\ [][C5_Step]_vars

\* C5 witness: a rate-limited request at Success after one get_agent call and
\* one agent call.
C5_Witness ==
    \E r \in Reqs :
        /\ pc[r] = "Success"
        /\ args[r].rate_limit # 0
        /\ agentCalls[r] = 1
        /\ invokes[r] = 1

\* what the agent handed over in the chunks cs, element by element, in
\* arrival order: every action, every step, and every output
RECURSIVE Arrived(_)
Arrived(cs) ==
    IF cs = <<>> THEN <<>>
    ELSE LET c == Head(cs)
             here ==
                IF c.key = "actions"
                THEN [i \in 1..Len(c.items) |->
                        [type |-> "action", shape |-> c.items[i].shape,
                         tool |-> c.items[i].tool]]
                ELSE IF c.key = "steps"
                THEN [i \in 1..Len(c.items) |->
                        [type |-> "step", shape |-> c.items[i].action.shape,
                         tool |-> c.items[i].action.tool]]
                ELSE IF c.key = "output"
                THEN <<[type |-> "finish", shape |-> "none", tool |-> None]>>
                ELSE <<>>
         IN here \o Arrived(Tail(cs))

\* the event is the one emitted for the element: same type, and the tool of
\* an element that carries it as an attribute
EventFor(ev, el) ==
    /\ ev.type = el.type
    /\ el.shape = "obj" => ev.tool = el.tool

\* the events of a streamed request: those collected so far, or those of
\* its envelope
EventsOf(r) ==
    IF pc[r] = "Success" THEN resp[r].streamed_events.items ELSE loc[r].events

\* C6: in streamed mode the events are exactly the elements that arrived, in
\* arrival order: one action event per action, one step event per step (and
\* one finish event per output), none dropped, duplicated or reordered; while
\* a chunk is being worked on, the events are those of the elements handled
\* so far.
C6_EventsInArrivalOrder ==
    \A r \in Reqs :
        (args[r].stream /\ pc[r] \in {"Execute", "Success"}) =>
            LET el == Arrived(chunks[r])
                n == Len(el) - Len(loc[r].pending)
                evs == EventsOf(r)
            IN /\ Len(evs) = n
               /\ \A i \in 1..n : EventFor(evs[i], el[i])

\* C6 witness: an actions chunk then a steps chunk, and the envelope built.
C6_Witness ==
    \E r \in Reqs :
        /\ pc[r] = "Success"
        /\ Len(chunks[r]) = 2
        /\ chunks[r][1].key = "actions" /\ Len(chunks[r][1].items) = 1
        /\ chunks[r][2].key = "steps" /\ Len(chunks[r][2].items) = 1
        /\ Len(resp[r].streamed_events.items) = 2

\* C7 as stated: the envelope of a streamed request has at most one finish
\* event, and it is the last event.
C7_FinishIsLast ==
    \A r \in Reqs :
        (args[r].stream /\ pc[r] = "Success") =>
            LET evs == resp[r].streamed_events.items
            IN \A i \in 1..Len(evs) : evs[i].type = "finish" => i = Len(evs)

NoOutputChunk(cs) == \A i \in 1..Len(cs) : cs[i].key # "output"

\* C8: a streamed request whose stream ended (nothing was raised) without an
\* output chunk is at Success with ok = true, no error, an empty answer and
\* no finish event.
C8_NoOutputIsSuccess ==
    \A r \in Reqs :
        (/\ args[r].stream
         /\ pc[r] \in {"Success", "Failure"}
         /\ loc[r].exc = NoError
         /\ NoOutputChunk(chunks[r])) =>
            /\ pc[r] = "Success"
            /\ resp[r].ok = TRUE
            /\ resp[r].error = None
            /\ resp[r].answer = <<>>
            /\ \A i \in 1..Len(resp[r].streamed_events.items) :
                  resp[r].streamed_events.items[i].type # "finish"

\* C8 witness: two chunks arrived, none an output, events were emitted, and
\* the envelope is built.
C8_Witness ==
    \E r \in Reqs :
        /\ pc[r] = "Success"
        /\ args[r].stream
        /\ Len(chunks[r]) = 2
        /\ NoOutputChunk(chunks[r])
        /\ Len(resp[r].streamed_events.items) >= 1

\* the text between the first and the last character that is not a blank
Trimmed(s) ==
    LET idx == {i \in 1..Len(s) : s[i] # " "}
    IN IF idx = {} THEN <<>>
       ELSE SubSeq(s, CHOOSE i \in idx : \A j \in idx : i <= j,
                      CHOOSE i \in idx : \A j \in idx : i >= j)

\* the answer of the chunks cs: the text of the last output chunk
RECURSIVE AnswerOf(_)
AnswerOf(cs) ==
    IF cs = <<>> THEN <<>>
    ELSE LET c == cs[Len(cs)]
         IN IF c.key = "output"
            THEN (IF c.output = None THEN <<>> ELSE Trimmed(c.output))
            ELSE AnswerOf(SubSeq(cs, 1, Len(cs) - 1))

\* the event the stream emits for an element that arrived
EventOf(el) ==
    IF el.type = "finish" THEN [type |-> "finish", tool |-> None, message |-> <<"Done">>]
    ELSE IF el.type = "action"
    THEN (IF el.tool # None
          THEN [type |-> "action", tool |-> el.tool,
                message |-> <<"Calling tool: ">> \o el.tool]
          ELSE [type |-> "action", tool |-> None, message |-> <<"Planning...">>])
    ELSE (IF el.tool # None /\ el.shape = "obj"
          THEN [type |-> "step", tool |-> el.tool, message |-> <<"Completed: ">> \o el.tool]
          ELSE [type |-> "step", tool |-> None, message |-> <<"Step completed">>])

\* C9: what a streamed request returns is decided by the chunks alone,
\* whatever report_progress did and whether or not there was a Context: a
\* failed report never ends the request, and the envelope at Success has
\* ok = true, no error, the answer of the chunks and their events in order.
C9_ProgressFailuresSwallowed ==
    \A r \in Reqs :
        args[r].stream =>
            /\ loc[r].exc \notin ReportErrors
            /\ pc[r] = "Success" =>
                  /\ resp[r].ok = TRUE
                  /\ resp[r].error = None
                  /\ resp[r].answer = AnswerOf(chunks[r])
                  /\ resp[r].streamed_events.items
                        = [i \in 1..Len(Arrived(chunks[r])) |-> EventOf(Arrived(chunks[r])[i])]

\* C9 witness: two progress reports were made, one of them failed, and the
\* request is at Success.
C9_Witness ==
    \E r \in Reqs :
        /\ pc[r] = "Success"
        /\ Len(reports[r]) = 2
        /\ failures[r] = 1

C10_State ==
    /\ built <= 1
    /\ _AGENT = Null <=> built = 0
    /\ \A r \in Reqs : loc[r].agent # Null => loc[r].agent = _AGENT

C10_Step ==
    _AGENT # Null =>
        /\ _AGENT' = _AGENT
        /\ built' = built
        /\ \A r \in Reqs :
              (pc[r] = "Dispatch" /\ pc'[r] # "Dispatch") =>
                  (pc'[r] = "Execute" /\ loc'[r].agent = _AGENT)

\* C10: the agent is constructed at most once: once the singleton is set it
\* never changes, every request holds that one instance, and a later
\* get_agent call returns it whatever the configuration then is (it cannot
\* fail on a missing credential).
C10_SingletonBuiltOnce == [](C10_State) /\ [][C10_Step]_vars

\* C10 witness: while one request is suspended in its stream, a later request
\* has called get_agent and holds the same instance.
C10_Witness ==
    \E r1, r2 \in Reqs :
        /\ r1 < r2
        /\ pc[r1] = "Execute" /\ pc[r2] = "Execute"
        /\ agentCalls[r1] = 1 /\ agentCalls[r2] = 1
        /\ loc[r1].agent # Null
        /\ loc[r1].agent = loc[r2].agent
        /\ built = 1

ConfigErrorText == <<"ValueError">> \o <<": ">> \o <<"OPENAI_API_KEY is required">>

C11_Step ==
    \A r \in Reqs :
        /\ (pc[r] = "Dispatch" /\ pc'[r] = "Failure") =>
              /\ _AGENT = Null /\ _AGENT' = Null
              /\ built' = built
              /\ attempts' = attempts + 1
              /\ resp'[r].ok = FALSE
              /\ resp'[r].error = ConfigErrorText
        /\ (pc[r] \in Terminal /\ pc'[r] # pc[r]) =>
              /\ pc'[r] = "Returned"
              /\ running' = 0
              /\ _AGENT' = _AGENT
              /\ _RATE_LIMIT_STORE' = _RATE_LIMIT_STORE

C11_State ==
    /\ \A r \in Reqs :
          /\ pc[r] \in Terminal => (running = r /\ ENABLED Return(r))
          /\ (running = r /\ pc[r] = "Dispatch" /\ _AGENT = Null) =>
                ENABLED (Dispatch(r) /\ _AGENT' # Null /\ pc'[r] = "Execute")
    /\ (running = 0 /\ budget.calls > 0) => ENABLED (\E r \in Reqs : Call(r))

\* C11: a configuration error raised while the agent is being constructed
\* leaves the singleton unset and ends that request alone, in a Failure
\* envelope naming the error; the next request that reaches Dispatch
\* constructs again and gets an agent when the credential is then there.
\* Whatever the outcome of a request, it returns, the event loop is free
\* again, and a further invocation can start.
C11_ConfigErrorNotFatal == [](C11_State) /\ [][C11_Step]_vars

\* C11 witness: two constructions failed on the missing credential, the
\* third gave the agent, and the request that made it is at Success.
C11_Witness ==
    \E r \in Reqs :
        /\ attempts = 3
        /\ built = 1
        /\ pc[r] = "Success"
        /\ loc[r].agent = _AGENT

\* C12 as stated: a request that called the agent and reached its terminal
\* state was suspended at least once on the way (loc.at names the last
\* point where it gave up the event loop), in direct mode as in streamed
\* mode.
C12_SuspendsInExecute ==
    \A r \in Reqs :
        (pc[r] \in {"Success", "Failure"} /\ invokes[r] = 1) => loc[r].at # "none"

\* C13: an envelope carries streamed_events only for stream = true: it is
\* None in every envelope of a request with stream = false, and a streamed
\* request at Success carries the list of the events collected, in order,
\* even when that list is empty.
C13_EventsOnlyWhenStreamed ==
    \A r \in Reqs :
        resp[r] # Null =>
            /\ ~args[r].stream => resp[r].streamed_events = Null
            /\ (args[r].stream /\ pc[r] = "Success") =>
                  /\ resp[r].streamed_events # Null
                  /\ resp[r].streamed_events.items = loc[r].events

\* C13 witness: a streamed request at Success whose stream gave no event.
C13_Witness ==
    \E r \in Reqs :
        /\ args[r].stream
        /\ pc[r] = "Success"
        /\ resp[r].streamed_events = [items |-> <<>>]

\* the deque of key in store, empty when the key was never seen
QueueOf(store, key) == IF key \in DOMAIN store THEN store[key] ELSE <<>>

\* q is what is left of old after dropping some of its first entries
IsSuffix(q, old) ==
    /\ Len(q) <= Len(old)
    /\ q = SubSeq(old, Len(old) - Len(q) + 1, Len(old))

\* the request that makes a _check_rate_limit call in this step
Checking(r) == pc[r] = "RateCheck" /\ pc'[r] # "RateCheck"

C14_Step ==
    /\ \A r \in Reqs :
          Checking(r) =>
             LET key == RateKey(ctx[r])
                 old == QueueOf(_RATE_LIMIT_STORE, key)
                 new == QueueOf(_RATE_LIMIT_STORE', key)
                 kept == IF pc'[r] = "Rejected" THEN new
                         ELSE SubSeq(new, 1, Len(new) - 1)
             IN /\ IsSuffix(kept, old)
                /\ \A i \in 1..(Len(old) - Len(kept)) : clock' - old[i] > window_sec
                /\ pc'[r] # "Rejected" => (new # <<>> /\ new[Len(new)] = clock')
                /\ pc'[r] = "Rejected" => admitLog' = admitLog
    /\ (\A r \in Reqs : ~Checking(r)) => _RATE_LIMIT_STORE' = _RATE_LIMIT_STORE

C14_State ==
    \A key \in DOMAIN admitLog :
        LET log == admitLog[key]
            q == QueueOf(_RATE_LIMIT_STORE, key)
        IN /\ IsSuffix(q, log)
           /\ \A i \in 1..(Len(log) - Len(q)) : clock - log[i] > window_sec

\* C14: a rejected _check_rate_limit call records nothing: the key's queue
\* is the old one less the expired entries purged from its front; an
\* admitted call appends exactly one timestamp, its own; no other step of
\* any request changes the store, so an admission stays in the queue, and
\* counts, for as long as it is within 60 seconds of the clock, whether the
\* request ends in Success or in Failure.
C14_OnlyAdmissionsRecorded == [](C14_State) /\ [][C14_Step]_vars

\* C14 witness: an admitted request ended in Failure and its timestamp is
\* still the last entry of its key's queue.
C14_Witness ==
    \E r \in Reqs :
        /\ pc[r] = "Failure"
        /\ lastCheck.req = r /\ lastCheck.ok
        /\ LET q == QueueOf(_RATE_LIMIT_STORE, lastCheck.key)
           IN Len(q) = 2 /\ q[2] = lastCheck.now

\* the queue the latest _check_rate_limit call decided on and left behind
CheckedQueue == QueueOf(_RATE_LIMIT_STORE, lastCheck.key)

\* C15: when _check_rate_limit has decided for a key at time now, admitting
\* or rejecting, every timestamp in that key's queue is at most 60 seconds
\* older than now (and none is later than now): all older entries were
\* purged before the length was compared with the limit.
C15_QueueWithinWindow ==
    lastCheck.req # 0 =>
        \A i \in 1..Len(CheckedQueue) :
            /\ lastCheck.now - CheckedQueue[i] <= window_sec
            /\ lastCheck.now - CheckedQueue[i] >= 0

\* C15 witness: a call is rejected on a queue from which an expired entry
\* had to be purged first: two admissions, the first more than 60 seconds
\* old, the second still in the queue.
C15_Witness ==
    /\ lastCheck.req # 0
    /\ ~lastCheck.ok
    /\ Len(QueueOf(admitLog, lastCheck.key)) = 2
    /\ lastCheck.now - admitLog[lastCheck.key][1] > window_sec
    /\ CheckedQueue = <<admitLog[lastCheck.key][2]>>

\* admissions logged for the key of the latest check, this one included,
\* that lie in the 60 seconds up to it
AdmittedInWindow ==
    LET log == QueueOf(admitLog, lastCheck.key)
    IN Cardinality({i \in 1..Len(log) : lastCheck.now - log[i] <= window_sec})

\* C16: under every interleaving of the requests in flight, a call admitted
\* with limit N leaves at most N admissions for its key in the 60 seconds up
\* to it, itself included, and the queue it leaves has at most N entries,
\* the last one its own: every admission was decided on a queue that held
\* all earlier admissions of the window.
C16_AdmissionsBounded ==
    (lastCheck.req # 0 /\ lastCheck.ok) =>
        /\ AdmittedInWindow <= lastCheck.limit
        /\ Len(CheckedQueue) = AdmittedInWindow
        /\ CheckedQueue[Len(CheckedQueue)] = lastCheck.now

\* C16 witness: while a request admitted with limit 2 is suspended in its
\* stream, another request for the same key is admitted with limit 2 and
\* fills the window.
C16_Witness ==
    \E r1, r2 \in Reqs :
        /\ r1 # r2
        /\ pc[r1] = "Execute" /\ loc[r1].at = "chunk"
        /\ args[r1].rate_limit = 2
        /\ RateKey(ctx[r1]) = lastCheck.key
        /\ lastCheck.req = r2 /\ lastCheck.ok /\ lastCheck.limit = 2
        /\ pc[r2] = "Dispatch"
        /\ AdmittedInWindow = 2

\* C17 as stated: the event of a completed step whose action carries a tool
\* name, as an attribute or as a dict field, has that tool and the message
\* "Completed: {tool}"; only a step without a tool name has tool None and
\* the message "Step completed".
C17_StepToolEitherShape ==
    \A r \in Reqs :
        (args[r].stream /\ pc[r] \in {"Execute", "Success"}) =>
            LET el == Arrived(chunks[r])
                evs == EventsOf(r)
            IN \A i \in 1..Len(evs) :
                  el[i].type = "step" =>
                     evs[i] = IF el[i].tool # None
                              THEN StreamEvent("step", el[i].tool,
                                               <<"Completed: ">> \o el[i].tool)
                              ELSE StreamEvent("step", None, <<"Step completed">>)

\* q is in non-decreasing order
Sorted(q) == \A i, j \in 1..Len(q) : i < j => q[i] <= q[j]

\* entries of key's queue purged so far
Purged(store, log, key) == Len(QueueOf(log, key)) - Len(QueueOf(store, key))

C18_State ==
    \A key \in DOMAIN _RATE_LIMIT_STORE :
        /\ Sorted(_RATE_LIMIT_STORE[key])
        /\ IsSuffix(_RATE_LIMIT_STORE[key], QueueOf(admitLog, key))
        /\ \A i \in 1..Len(_RATE_LIMIT_STORE[key]) : _RATE_LIMIT_STORE[key][i] <= clock

C18_Step ==
    /\ clock' >= clock
    /\ \A key \in DOMAIN _RATE_LIMIT_STORE' :
          /\ Purged(_RATE_LIMIT_STORE', admitLog', key)
                >= Purged(_RATE_LIMIT_STORE, admitLog, key)
          /\ \A i \in 1..Purged(_RATE_LIMIT_STORE', admitLog', key) :
                clock' - admitLog'[key][i] > window_sec

\* C18: under every sequence and interleaving of _check_rate_limit calls
\* each key's queue is in non-decreasing time order and is the tail of the
\* key's admissions, so what a purge drops from the front is exactly the
\* expired entries; the number of purged admissions never goes down, and a
\* purged admission stays older than 60 seconds: it never is in the queue
\* again.
C18_MonotonicInTime == [](C18_State) /\ [][C18_Step]_vars

\* C18 witness: a queue of two entries of different times left after its
\* oldest admission was purged.
C18_Witness ==
    \E key \in DOMAIN _RATE_LIMIT_STORE :
        /\ Len(_RATE_LIMIT_STORE[key]) = 2
        /\ _RATE_LIMIT_STORE[key][1] < _RATE_LIMIT_STORE[key][2]
        /\ Purged(_RATE_LIMIT_STORE, admitLog, key) = 1

\* C19 as stated: the progress values a streamed request passes to
\* report_progress are strictly increasing, whatever chunks the agent
\* yields and in whatever order.
C19_ProgressIncreasing ==
    \A r \in Reqs :
        \A i, j \in 1..Len(reports[r]) : i < j => reports[r][i] < reports[r][j]

\* the Context names a client
HasIdentity(c) == c # Null /\ Truthy(c.client_id)

\* C20 as stated, its last part: of the requests that went through the
\* limiter, only those without a client identity use the "global" key.
C20_GlobalOnlyWithoutIdentity ==
    \A r \in Reqs :
        (lastCheck.req = r /\ pc[r] \in {"Dispatch", "Rejected"}
            /\ lastCheck.key = <<"global">>) => ~HasIdentity(ctx[r])

====
